---- MODULE Spec2Model ----
(***************************************************************************)
(* Model of the chat client of locallm: the useChat hook (sessions, the    *)
(* message list, send / stop) and ApiService.generateResponse (the         *)
(* incremental decoder of the streamed `data: <json>` frames).             *)
(*                                                                         *)
(* Text is a sequence of one-character strings, so that a chunk boundary   *)
(* may fall anywhere.  Literal texts of the code that are never split      *)
(* ("Error: ", the stop marker) are kept as one symbol.                    *)
(***************************************************************************)
EXTENDS Integers, Sequences, FiniteSets, TLC

\* ------------------------------------------------------------------ bounds
\* Number of sendMessage calls in one behaviour.
MaxSends == 3
\* Number of sessions the persistence collaborator can allocate.
MaxSessions == 2
\* Number of frames (lines) of a response body in the decoder specification.
MaxFrames == 2
\* Longest chunk a single read delivers in the decoder specification, besides
\* a read that delivers everything that is left.
MaxChunk == 2

\* Longest persisted history of a session in the context specification.
MaxHistory == 3
\* Largest context limit tried in the context specification, besides the
\* limit the client sends.
MaxLimit == 4

Sends == 1..MaxSends
SessionIds == 1..MaxSessions

\* ------------------------------------------------------------------ text
NL == "\n"
SP == " "
Whitespace == {SP, NL}

RECURSIVE Flatten(_)
Flatten(ss) == IF ss = <<>> THEN <<>> ELSE Head(ss) \o Flatten(Tail(ss))

Last(s) == s[Len(s)]
Front(s) == SubSeq(s, 1, Len(s) - 1)

\* String.prototype.startsWith
startsWith(s, p) == Len(s) >= Len(p) /\ SubSeq(s, 1, Len(p)) = p
\* String.prototype.slice(n)
slice(s, n) == SubSeq(s, n + 1, Len(s))

RECURSIVE TrimLeft(_)
TrimLeft(s) == IF s # <<>> /\ Head(s) \in Whitespace THEN TrimLeft(Tail(s)) ELSE s
RECURSIVE TrimRight(_)
TrimRight(s) == IF s # <<>> /\ Last(s) \in Whitespace THEN TrimRight(Front(s)) ELSE s
\* String.prototype.trim
trim(s) == TrimRight(TrimLeft(s))

\* String.prototype.split('\n'): the pieces between the newlines, in order;
\* one piece more than there are newlines.
NewlinesOf(s) == { i \in 1..Len(s) : s[i] = NL }
split(s) ==
    LET nl == NewlinesOf(s)
        n == Cardinality(nl)
        at(k) == IF k = 0 THEN 0
                 ELSE IF k = n + 1 THEN Len(s) + 1
                 ELSE CHOOSE p \in nl : Cardinality({ q \in nl : q <= p }) = k
    IN [k \in 1..(n + 1) |-> SubSeq(s, at(k - 1) + 1, at(k) - 1)]

\* ------------------------------------------------------------------ wire texts
DataPrefix == <<"d", "a", "t", "a", ":", " ">>
DataColon == <<"d", "a", "t", "a", ":">>
Q == "\""
KeyContent == <<Q, "c", "o", "n", "t", "e", "n", "t", Q, ":">>
KeyError == <<Q, "e", "r", "r", "o", "r", Q, ":">>
KeyDone == <<Q, "d", "o", "n", "e", Q, ":">>
LitTrue == <<"t", "r", "u", "e">>
Str(c) == <<Q>> \o c \o <<Q>>
Obj(members) == <<"{">> \o members \o <<"}">>

JsonContent(c) == Obj(KeyContent \o Str(c))
JsonDone == Obj(KeyDone \o LitTrue)
JsonError(e) == Obj(KeyError \o Str(e))
JsonContentDone(c) == Obj(KeyContent \o Str(c) \o <<",">> \o KeyDone \o LitTrue)
JsonErrorContent(e, c) == Obj(KeyError \o Str(e) \o <<",">> \o KeyContent \o Str(c))
NotJson == <<"{", "n", "o", "t", "-", "j", "s", "o", "n", "}">>

\* The content and error texts the modelled backend sends.
Contents == {<<"a">>, <<"b">>, <<SP>>, <<>>}
Errors == {<<"x">>}

\* The parsed record: an absent text field is the empty text (the code only
\* tests the fields for truthiness, which is the same for absent and empty).
Parsed(ok, e, c, d) == [ok |-> ok, error |-> e, content |-> c, done |-> d]
ParseFailure == Parsed(FALSE, <<>>, <<>>, FALSE)

\* JSON.parse on the records the modelled backend can send; any other text
\* is either no JSON at all (SyntaxError) or a JSON value with none of the
\* three fields, and both end in the same way: the line yields nothing.
JSONparse(text) ==
    LET t == trim(text) IN
    IF \E c \in Contents : t = JsonContent(c)
      THEN Parsed(TRUE, <<>>, (CHOOSE c \in Contents : t = JsonContent(c)), FALSE)
    ELSE IF t = JsonDone
      THEN Parsed(TRUE, <<>>, <<>>, TRUE)
    ELSE IF \E c \in Contents : t = JsonContentDone(c)
      THEN Parsed(TRUE, <<>>, (CHOOSE c \in Contents : t = JsonContentDone(c)), TRUE)
    ELSE IF \E e \in Errors : t = JsonError(e)
      THEN Parsed(TRUE, (CHOOSE e \in Errors : t = JsonError(e)), <<>>, FALSE)
    ELSE IF \E e \in Errors, c \in Contents : t = JsonErrorContent(e, c)
      THEN LET p == CHOOSE p \in Errors \X Contents : t = JsonErrorContent(p[1], p[2])
           IN Parsed(TRUE, p[1], p[2], FALSE)
    ELSE ParseFailure

\* ------------------------------------------------------------------ decoder
\* What processing one complete line yields: the content deltas handed to
\* onChunk (none or one) and whether generateResponse returns at this line.
LineResult(emit, ret) == [emit |-> emit, returned |-> ret]

\* A decoder for which a line that does not parse ends the response.
processLineParseFatal(line) ==
    IF startsWith(line, DataPrefix)
    THEN LET data == JSONparse(slice(line, 6)) IN
         IF ~data.ok THEN LineResult(<<>>, TRUE)
         ELSE IF data.error # <<>> THEN LineResult(<<>>, FALSE)
         ELSE LineResult(IF data.content # <<>> THEN <<data.content>> ELSE <<>>,
                         data.done)
    ELSE LineResult(<<>>, FALSE)

\* A line handler that takes a line with `data:` and no blank, or with no
\* prefix at all, as it takes the flush.
processLineAnyPrefix(line) ==
    LET data == JSONparse(IF startsWith(line, DataColon) THEN TrimLeft(slice(line, 5))
                          ELSE line) IN
    IF ~data.ok THEN LineResult(<<>>, FALSE)
    ELSE IF data.error # <<>> THEN LineResult(<<>>, FALSE)
    ELSE LineResult(IF data.content # <<>> THEN <<data.content>> ELSE <<>>, data.done)
\* A line handler that hands the content over before it looks at the error.
processLineContentFirst(line) ==
    IF startsWith(line, DataPrefix)
    THEN LET data == JSONparse(slice(line, 6)) IN
         IF ~data.ok THEN LineResult(<<>>, FALSE)
         ELSE LineResult(IF data.content # <<>> THEN <<data.content>> ELSE <<>>,
                         data.error = <<>> /\ data.done)
    ELSE LineResult(<<>>, FALSE)
\* A decoder that goes on after a done frame.
processLineDoneIgnored(line) ==
    IF startsWith(line, DataPrefix)
    THEN LET data == JSONparse(slice(line, 6)) IN
         IF ~data.ok THEN LineResult(<<>>, FALSE)
         ELSE IF data.error # <<>> THEN LineResult(<<>>, FALSE)
         ELSE LineResult(IF data.content # <<>> THEN <<data.content>> ELSE <<>>, FALSE)
    ELSE LineResult(<<>>, FALSE)

\* The body of the for loop of generateResponse for one line.  A throw inside
\* the try block (JSON.parse failing, or `throw new Error(data.error)`) lands
\* in `catch (parseError)`, which logs and lets the loop go on.
processLine(line) ==
    IF startsWith(line, DataPrefix)
    THEN LET data == JSONparse(slice(line, 6)) IN
         IF ~data.ok THEN LineResult(<<>>, FALSE)
         ELSE IF data.error # <<>> THEN LineResult(<<>>, FALSE)
         ELSE LineResult(IF data.content # <<>> THEN <<data.content>> ELSE <<>>,
                         data.done)
    ELSE LineResult(<<>>, FALSE)

\* The for loop over the complete lines of one read, left at the first line
\* that returns.
RECURSIVE processLines(_)
processLines(lines) ==
    IF lines = <<>> THEN LineResult(<<>>, FALSE)
    ELSE LET r == processLine(Head(lines)) IN
         IF r.returned THEN r
         ELSE LET rest == processLines(Tail(lines)) IN
              LineResult(r.emit \o rest.emit, rest.returned)

\* A decoder that forgets the unterminated rest of a read.
carryOverLost(pieces) == <<>>
\* A decoder that also processes the piece after the last newline.
completeLinesAll(pieces) == pieces
\* buffer += chunk; lines = buffer.split('\n'); buffer = lines.pop() || ''
carryOver(pieces) == Last(pieces)
completeLines(pieces) == Front(pieces)

\* buffer.replace(/^data:\s*/, '')
stripDataPrefix(buffer) ==
    IF startsWith(buffer, DataColon) THEN TrimLeft(slice(buffer, 5)) ELSE buffer

\* A flush that parses the carry-over as it is.
flushBufferUnstripped(buffer) ==
    IF buffer = <<>> THEN <<>>
    ELSE LET data == JSONparse(buffer) IN
         IF data.ok /\ data.content # <<>> THEN <<data.content>> ELSE <<>>
\* The flush of the carry-over after the reader reported done.
flushBuffer(buffer) ==
    IF buffer = <<>> THEN <<>>
    ELSE LET data == JSONparse(stripDataPrefix(buffer)) IN
         IF data.ok /\ data.content # <<>> THEN <<data.content>> ELSE <<>>

\* ------------------------------------------------------------------ response bodies
Line(payload) == DataPrefix \o payload
RECURSIVE JoinLines(_)
JoinLines(ls) == IF ls = <<>> THEN <<>> ELSE Head(ls) \o <<NL>> \o JoinLines(Tail(ls))

\* The lines a response body of the decoder specification is made of.
FrameLines ==
    { Line(JsonContent(<<"a">>)), Line(JsonContent(<<"b">>)),
      Line(JsonDone), Line(JsonContentDone(<<"b">>)),
      Line(JsonError(<<"x">>)), Line(JsonErrorContent(<<"x">>, <<"a">>)),
      Line(NotJson), JsonContent(<<"a">>) }
\* What may follow the last newline of a body: nothing, a whole frame that
\* lacks its newline (with and without the space of the prefix), a frame cut
\* off in the middle, an error record that lacks its newline.
Tails ==
    { <<>>, Line(JsonContent(<<"a">>)), DataColon \o JsonContent(<<"b">>),
      SubSeq(Line(JsonContent(<<"a">>)), 1, 11), Line(JsonError(<<"x">>)) }
FrameSeqs(n) == UNION { [1..k -> FrameLines] : k \in 0..n }
\* The response bodies of the scenarios the design names: two contents and a
\* done frame; a malformed line between two content lines.
ScenarioBodies ==
    { JoinLines(<<Line(JsonContent(<<"a">>)), Line(JsonContent(<<"b">>)), Line(JsonDone)>>),
      JoinLines(<<Line(JsonContent(<<"a">>)), Line(NotJson), Line(JsonContent(<<"b">>))>>) }
\* Every body of at most MaxFrames newline-terminated lines and a tail, and
\* the scenarios.
Bodies ==
    { JoinLines(ls) \o tail : ls \in FrameSeqs(MaxFrames), tail \in Tails }
        \cup ScenarioBodies

\* The bodies of the specifications of the hook: an answer "a" ended by a
\* done frame, and an answer of one blank that ends without a done frame.
HookBodies ==
    { JoinLines(<<Line(JsonContent(<<"a">>)), Line(JsonDone)>>),
      JoinLines(<<Line(JsonContent(<<SP>>))>>) }

\* ------------------------------------------------------------------ hook state
Models == {"llama3"}
NoModel == ""
Session(id, model) == [id |-> id, model |-> model]
\* currentSession === null
NoSession == Session(0, NoModel)

StopMarker == <<NL, NL, "[Generation stopped by user]">>
ErrorPrefix == <<"Error: ">>
HttpErrorMessage == <<"HTTP error! status: 500">>
NetworkErrorMessage == <<"Failed to fetch">>
AbortMessage == <<"Aborted">>

Message(type, content, timestamp) ==
    [type |-> type, content |-> content, timestamp |-> timestamp]

\* The texts a user submits: one padded with blanks, one of blanks only.
Inputs == { <<SP, "h", SP>>, <<SP>> }

\* The message records the persistence collaborator returns for a session.
PersistedLists ==
    { <<>>,
      << [role |-> "user", content |-> <<"q">>, timestamp |-> 0],
         [role |-> "assistant", content |-> <<"r">>, timestamp |-> 0],
         [role |-> "system", content |-> <<"n">>, timestamp |-> 0] >> }

VARIABLES
    messages,           \* useState([]): the conversation shown
    sessions,           \* useState([]): the session list, as a set of sessions
    currentSession,     \* useState(null)
    isGenerating,       \* useState(false)
    selectedModel,      \* useState('')
    abortControllerRef, \* useRef(null): 0, or the send whose controller it holds
    aborted,            \* signal.aborted of the controller of each send
    send,               \* the activation record of each sendMessage call
    nextSend,           \* the next sendMessage call
    op,                 \* the one session operation (load/create/switch/delete) in flight
    store,              \* the sessions the persistence collaborator holds
    allocated,          \* how many session ids the collaborator has handed out
    ctx                 \* the generation backend assembling the context of a request

vars == <<messages, sessions, currentSession, isGenerating, selectedModel,
          abortControllerRef, aborted, send, nextSend, op, store, allocated, ctx>>

\* The backend has no request at hand.
NoCtx == [history |-> <<>>, limit |-> 0, prompt |-> "", context |-> <<>>, pc |-> "none"]

IdleSend ==
    [pc |-> "idle", text |-> <<>>, model |-> NoModel, capCur |-> NoSession,
     sessionId |-> 0, newSession |-> NoSession, body |-> <<>>, pos |-> 0,
     buffer |-> <<>>, aiResponse |-> <<>>, emitted |-> <<>>, outcome |-> "none"]
IdleOp ==
    [kind |-> "none", pc |-> "none", id |-> 0, model |-> NoModel,
     capCur |-> NoSession, session |-> NoSession, result |-> "none",
     value |-> NoSession]
\* The session operation has ended: it returned, or it threw the error of
\* the failed collaborator call to its caller.
Ended(result) == [IdleOp EXCEPT !.result = result]
\* createNewSession returned newSession.
Returning(newSession) == [IdleOp EXCEPT !.result = "returned", !.value = newSession]
Thrown ==
    {"Failed to create session", "Failed to fetch session",
     "Failed to fetch session messages", "Failed to delete session"}

\* The state after the hook is constructed: nothing loaded, and the mount
\* effect has called loadSessions(), whose getSessions() is awaited.
Init ==
    /\ messages = <<>>
    /\ sessions = {}
    /\ currentSession = NoSession
    /\ isGenerating = FALSE
    /\ selectedModel = NoModel
    /\ abortControllerRef = 0
    /\ aborted = [s \in Sends |-> FALSE]
    /\ send = [s \in Sends |-> IdleSend]
    /\ nextSend = 1
    /\ op = [IdleOp EXCEPT !.kind = "load", !.pc = "getSessions"]
    /\ store = {}
    /\ allocated = 0
    /\ ctx = NoCtx

\* ------------------------------------------------------------------ hook operations on the state
\* The React state and the ref as one record, so that the steps a handler
\* takes between two awaits compose.
Hook ==
    [messages |-> messages, sessions |-> sessions, currentSession |-> currentSession,
     isGenerating |-> isGenerating, selectedModel |-> selectedModel,
     abortControllerRef |-> abortControllerRef, aborted |-> aborted]

Install(h) ==
    /\ messages' = h.messages
    /\ sessions' = h.sessions
    /\ currentSession' = h.currentSession
    /\ isGenerating' = h.isGenerating
    /\ selectedModel' = h.selectedModel
    /\ abortControllerRef' = h.abortControllerRef
    /\ aborted' = h.aborted

SessionIdsOf(list) == { x.id : x \in list }

\* loadSessions after its getSessions() settled.  `capCur` is the
\* currentSession of the closure the call was made from.
loadSessionsSettled(h, capCur, ok, sessionList) ==
    IF ok
    THEN IF capCur # NoSession /\ capCur.id \notin SessionIdsOf(sessionList)
         THEN [h EXCEPT !.sessions = sessionList, !.currentSession = NoSession,
                        !.messages = <<>>]
         ELSE [h EXCEPT !.sessions = sessionList]
    ELSE [h EXCEPT !.sessions = {}]

\* A createNewSession that keeps the conversation it finds.
installNewSessionKeepsMessages(h, newSession, model) ==
    [h EXCEPT !.currentSession = newSession, !.selectedModel = model]
\* The tail of createNewSession, after `await loadSessions()`.
installNewSession(h, newSession, model) ==
    [h EXCEPT !.currentSession = newSession, !.messages = <<>>,
              !.selectedModel = model]

\* A createNewSession that installs a local session although the call failed.
createNewSessionCatchSpeculative(h, model) ==
    installNewSession(h, Session(MaxSessions, model), model)
\* The catch block of createNewSession: the error is logged and thrown on,
\* no state is set.
createNewSessionCatch(h, model) == h

\* A reconciliation that writes the marker twice.
stoppedContentTwice(content) == content \o StopMarker \o StopMarker
\* The updater stopGeneration hands to setMessages.
stoppedContent(content) == content \o StopMarker
\* A reconciliation that removes the last message only if its content is the
\* empty string.
reconcileStoppedEmptyOnly(prev) ==
    IF Len(prev) > 0 /\ Last(prev).type = "ai"
    THEN IF Last(prev).content = <<>>
         THEN Front(prev)
         ELSE [prev EXCEPT ![Len(prev)].content = stoppedContent(Last(prev).content)]
    ELSE prev
\* The updater of stopGeneration: the last message, if it is an assistant
\* message, is popped when its trimmed content is empty and marked otherwise.
reconcileStopped(prev) ==
    IF Len(prev) > 0 /\ Last(prev).type = "ai"
    THEN IF trim(Last(prev).content) = <<>>
         THEN Front(prev)
         ELSE [prev EXCEPT ![Len(prev)].content = stoppedContent(Last(prev).content)]
    ELSE prev

\* A stopGeneration that reconciles the last message whether or not it
\* holds a controller.
stopGenerationAlwaysMarks(h) ==
    IF h.abortControllerRef # 0
    THEN [h EXCEPT !.aborted[h.abortControllerRef] = TRUE,
                   !.abortControllerRef = 0,
                   !.isGenerating = FALSE,
                   !.messages = reconcileStopped(h.messages)]
    ELSE [h EXCEPT !.messages = reconcileStopped(h.messages)]

\* A stopGeneration that reconciles whether or not it holds a controller.
stopGenerationNoGuard(h) ==
    [h EXCEPT !.aborted = [s \in Sends |-> h.aborted[s] \/ s = h.abortControllerRef],
              !.abortControllerRef = 0,
              !.isGenerating = FALSE,
              !.messages = reconcileStopped(h.messages)]
stopGeneration(h) ==
    IF h.abortControllerRef # 0
    THEN [h EXCEPT !.aborted[h.abortControllerRef] = TRUE,
                   !.abortControllerRef = 0,
                   !.isGenerating = FALSE,
                   !.messages = reconcileStopped(h.messages)]
    ELSE h

\* newMessages[newMessages.length - 1] = m; on an empty list the assignment
\* sets the property "-1" and the list stays empty.
replaceLast(prev, m) ==
    IF Len(prev) = 0 THEN prev ELSE [prev EXCEPT ![Len(prev)] = m]

\* sendMessage from the user message to the creation of the controller.
beginGeneration(h, s, text) ==
    [h EXCEPT !.messages = h.messages \o <<Message("user", text, s), Message("ai", <<>>, s)>>,
              !.isGenerating = TRUE,
              !.abortControllerRef = s]

\* A callback that shows the last delta in place of the accumulated answer.
onChunksDeltaOnly(msgs, s, aiResponse, deltas) ==
    IF deltas = <<>> THEN [messages |-> msgs, aiResponse |-> aiResponse]
    ELSE [messages |-> replaceLast(msgs, Message("ai", Last(deltas), s)),
          aiResponse |-> aiResponse \o Flatten(deltas)]
\* The onChunk callback of send s, once per delta: [messages, aiResponse].
RECURSIVE onChunks(_, _, _, _)
onChunks(msgs, s, aiResponse, deltas) ==
    IF deltas = <<>> THEN [messages |-> msgs, aiResponse |-> aiResponse]
    ELSE LET ai == aiResponse \o Head(deltas) IN
         onChunks(replaceLast(msgs, Message("ai", ai, s)), s, ai, Tail(deltas))

\* A catch block that adds the error message behind the placeholder.
showErrorAppends(h, s, message) ==
    [h EXCEPT !.messages = h.messages \o <<Message("ai", ErrorPrefix \o message, s)>>]
\* The catch block of sendMessage for an error that is no AbortError.
showError(h, s, message) ==
    [h EXCEPT !.messages = replaceLast(h.messages, Message("ai", ErrorPrefix \o message, s))]

\* A catch block that renders every error, an AbortError too.
sendMessageCatchRendersAll(h, s, name, message) == showError(h, s, message)
\* The catch block of sendMessage: an AbortError is only logged.
sendMessageCatch(h, s, name, message) ==
    IF name = "AbortError" THEN h ELSE showError(h, s, message)

\* A finally that leaves the controller in place.
settleKeepsController(h) == [h EXCEPT !.isGenerating = FALSE]
\* The finally block of sendMessage.
settle(h) == [h EXCEPT !.isGenerating = FALSE, !.abortControllerRef = 0]

\* A map that takes only the role assistant to 'ai'.
formatMessagesOnlyAssistant(sessionMessages) ==
    [i \in 1..Len(sessionMessages) |->
        Message(IF sessionMessages[i].role = "assistant" THEN "ai" ELSE "user",
                sessionMessages[i].content, sessionMessages[i].timestamp)]
\* switchToSession's map over the persisted records.
formatMessages(sessionMessages) ==
    [i \in 1..Len(sessionMessages) |->
        Message(IF sessionMessages[i].role = "user" THEN "user" ELSE "ai",
                sessionMessages[i].content, sessionMessages[i].timestamp)]

\* A switchToSession that sets the session as soon as it is fetched.
switchToSessionSettledEager(h, ok, session, sessionMessages) ==
    IF ok
    THEN [h EXCEPT !.currentSession = session, !.selectedModel = session.model,
                   !.messages = formatMessages(sessionMessages)]
    ELSE [h EXCEPT !.currentSession = session, !.selectedModel = session.model]
\* switchToSession after both fetches settled (ok), or after one of them
\* failed: the catch block logs and throws on.
switchToSessionSettled(h, ok, session, sessionMessages) ==
    IF ok
    THEN [h EXCEPT !.currentSession = session, !.selectedModel = session.model,
                   !.messages = formatMessages(sessionMessages)]
    ELSE h

\* The activation record of a call that has returned: its locals are gone.
\* `outcome` records the way the call ended.
Finished(outcome) == [IdleSend EXCEPT !.pc = "done", !.outcome = outcome]

\* ------------------------------------------------------------------ sendMessage
NoServer == UNCHANGED <<store, allocated, ctx>>

\* What a call has done when it reaches its first await or returns: the new
\* hook state, the place it is left at and the way it ended, if it has.
Started(h, pc, outcome) == [hook |-> h, pc |-> pc, outcome |-> outcome]
\* A sendMessage that stops the active generation before it looks at the
\* model and the text.
sendMessageStartStopsFirst(h, s, content) ==
    LET text == trim(content) IN
    IF h.isGenerating
    THEN Started(stopGeneration(h), "done",
                 IF h.selectedModel = NoModel \/ text = <<>> THEN "rejected" ELSE "stopped")
    ELSE IF h.selectedModel = NoModel \/ text = <<>>
    THEN Started(h, "done", "rejected")
    ELSE IF h.currentSession = NoSession
    THEN Started(h, "createSession", "none")
    ELSE Started(beginGeneration(h, s, text), "fetch", "none")
\* A sendMessage that appends the messages and raises the flag before the
\* session it lacks is created.
sendMessageStartAppendsFirst(h, s, content) ==
    LET text == trim(content) IN
    IF h.selectedModel = NoModel \/ text = <<>>
    THEN Started(h, "done", "rejected")
    ELSE IF h.isGenerating
    THEN Started(stopGeneration(h), "done", "stopped")
    ELSE IF h.currentSession = NoSession
    THEN Started(beginGeneration(h, s, text), "createSession", "none")
    ELSE Started(beginGeneration(h, s, text), "fetch", "none")
\* A sendMessage that cancels the active generation and then sends.
sendMessageStartCancelThenSend(h, s, content) ==
    LET text == trim(content)
        h1 == IF h.isGenerating THEN stopGeneration(h) ELSE h
    IN IF h.selectedModel = NoModel \/ text = <<>>
       THEN Started(h, "done", "rejected")
       ELSE IF h1.currentSession = NoSession
       THEN Started(h1, "createSession", "none")
       ELSE Started(beginGeneration(h1, s, text), "fetch", "none")

\* sendMessage(content) up to its first await: the new hook state and the
\* place the call is left at.
sendMessageStart(h, s, content) ==
    LET text == trim(content) IN
    IF h.selectedModel = NoModel \/ text = <<>>
    THEN Started(h, "done", "rejected")
    ELSE IF h.isGenerating
    THEN Started(stopGeneration(h), "done", "stopped")
    ELSE IF h.currentSession = NoSession
    THEN Started(h, "createSession", "none")
    ELSE Started(beginGeneration(h, s, text), "fetch", "none")

SendMessage(s, content) ==
    /\ s = nextSend
    /\ send[s].pc = "idle"
    /\ nextSend' = nextSend + 1
    /\ LET st == sendMessageStart(Hook, s, content) IN
       /\ Install(st.hook)
       /\ send' = [send EXCEPT ![s] =
                     IF st.pc = "done" THEN Finished(st.outcome)
                     ELSE [@ EXCEPT !.pc = st.pc, !.text = trim(content),
                                    !.model = selectedModel,
                                    !.capCur = currentSession,
                                    !.sessionId = currentSession.id]]
    /\ UNCHANGED op
    /\ NoServer

\* ChatBox.handleSubmit, then App.handleSendMessage.
HandleSubmit(s, input) ==
    /\ trim(input) # <<>>
    /\ selectedModel # NoModel
    /\ ~isGenerating
    /\ SendMessage(s, trim(input))

\* apiService.createSession settles inside the createNewSession of send s.
SendCreateSessionSettled(s, ok) ==
    /\ send[s].pc = "createSession"
    /\ IF ok
       THEN /\ allocated < MaxSessions
            /\ LET newSession == Session(allocated + 1, send[s].model) IN
               /\ store' = store \cup {newSession}
               /\ allocated' = allocated + 1
               /\ UNCHANGED ctx
               /\ send' = [send EXCEPT ![s].pc = "getSessions",
                                       ![s].newSession = newSession]
            /\ Install(Hook)
       ELSE /\ send' = [send EXCEPT ![s] = Finished("createFailed")]
            /\ NoServer
            /\ Install(createNewSessionCatch(Hook, send[s].model))
    /\ UNCHANGED <<nextSend, op>>

\* The loadSessions of that createNewSession settles: the session is
\* installed and sendMessage goes on to issue the request.
SendSessionInstalled(s, ok) ==
    /\ send[s].pc = "getSessions"
    /\ LET r == send[s]
           h1 == loadSessionsSettled(Hook, r.capCur, ok, store)
           h2 == installNewSession(h1, r.newSession, r.model)
       IN /\ Install(beginGeneration(h2, s, r.text))
          /\ send' = [send EXCEPT ![s].pc = "fetch", ![s].sessionId = r.newSession.id]
    /\ UNCHANGED <<nextSend, op>>
    /\ NoServer

\* fetch() settles: the response arrives with one of `bodies`, or the
\* request fails.
SendFetchSettled(s, status, bodies) ==
    /\ send[s].pc = "fetch"
    /\ IF aborted[s]
       THEN /\ send' = [send EXCEPT ![s] = Finished("aborted")]
            /\ Install(settle(sendMessageCatch(Hook, s, "AbortError", AbortMessage)))
       ELSE IF status = "ok"
       THEN /\ \E body \in bodies : send' = [send EXCEPT ![s].pc = "read", ![s].body = body]
            /\ Install(Hook)
       ELSE /\ send' = [send EXCEPT ![s] = Finished("error")]
            /\ Install(settle(sendMessageCatch(Hook, s, "Error",
                   IF status = "http" THEN HttpErrorMessage ELSE NetworkErrorMessage)))
    /\ UNCHANGED <<nextSend, op>>
    /\ NoServer

\* A return of generateResponse after which sendMessage ends at once, the
\* list not refreshed.
ReturnedNoRefresh(r) == Finished("complete")

\* generateResponse returned: sendMessage awaits loadSessions().
Returned(r) == [r EXCEPT !.pc = "refresh", !.buffer = <<>>]

\* A read loop that never looks at the signal.
abortSeenNever(signalAborted) == FALSE
\* if (signal && signal.aborted), after a read that delivered a chunk.
abortSeen(signalAborted) == signalAborted

\* reader.read() delivers the next n characters of the body.  After an
\* abort the chunk is dropped and the loop throws an AbortError.
SendReadChunk(s, n) ==
    /\ send[s].pc = "read"
    /\ send[s].pos + n <= Len(send[s].body)
    /\ send[s].pos < Len(send[s].body)
    /\ IF abortSeen(aborted[s])
       THEN /\ send' = [send EXCEPT ![s] = Finished("aborted")]
            /\ Install(settle(sendMessageCatch(Hook, s, "AbortError", AbortMessage)))
       ELSE
       LET r == send[s]
           chunk == SubSeq(r.body, r.pos + 1, r.pos + n)
           pieces == split(r.buffer \o chunk)
           res == processLines(completeLines(pieces))
           applied == onChunks(messages, s, r.aiResponse, res.emit)
           r1 == [r EXCEPT !.pos = r.pos + n,
                           !.buffer = carryOver(pieces),
                           !.aiResponse = applied.aiResponse,
                           !.emitted = r.emitted \o res.emit]
       IN /\ send' = [send EXCEPT ![s] = IF res.returned THEN Returned(r1) ELSE r1]
          /\ messages' = applied.messages
          /\ UNCHANGED <<sessions, currentSession, isGenerating, selectedModel,
                         abortControllerRef, aborted>>
    /\ UNCHANGED <<nextSend, op>>
    /\ NoServer

\* reader.read() reports the end of the body: the carry-over is flushed.
\* abort() errors the body, so an aborted body never reports its end: the
\* pending read rejects (SendReadRejected).
SendReadDone(s) ==
    /\ send[s].pc = "read"
    /\ ~aborted[s]
    /\ send[s].pos = Len(send[s].body)
    /\ LET r == send[s]
           emit == flushBuffer(r.buffer)
           applied == onChunks(messages, s, r.aiResponse, emit)
       IN /\ send' = [send EXCEPT ![s] =
                        Returned([r EXCEPT !.aiResponse = applied.aiResponse,
                                           !.emitted = r.emitted \o emit])]
          /\ messages' = applied.messages
    /\ UNCHANGED <<sessions, currentSession, isGenerating, selectedModel,
                   abortControllerRef, aborted, nextSend, op>>
    /\ NoServer

\* reader.read() rejects: with an AbortError after abort(), with a network
\* error otherwise.
SendReadRejected(s) ==
    /\ send[s].pc = "read"
    /\ IF aborted[s]
       THEN /\ send' = [send EXCEPT ![s] = Finished("aborted")]
            /\ Install(settle(sendMessageCatch(Hook, s, "AbortError", AbortMessage)))
       ELSE /\ send' = [send EXCEPT ![s] = Finished("error")]
            /\ Install(settle(sendMessageCatch(Hook, s, "Error", NetworkErrorMessage)))
    /\ UNCHANGED <<nextSend, op>>
    /\ NoServer

\* The loadSessions after the stream settles, then the finally block.
SendRefreshSettled(s, ok) ==
    /\ send[s].pc = "refresh"
    /\ send' = [send EXCEPT ![s] = Finished("complete")]
    /\ Install(settle(loadSessionsSettled(Hook, send[s].capCur, ok, store)))
    /\ UNCHANGED <<nextSend, op>>
    /\ NoServer

\* ------------------------------------------------------------------ stop, model, clear
StopGeneration ==
    /\ Install(stopGeneration(Hook))
    /\ UNCHANGED <<send, nextSend, op>>
    /\ NoServer

SetSelectedModel(model) ==
    /\ selectedModel' = model
    /\ UNCHANGED <<messages, sessions, currentSession, isGenerating,
                   abortControllerRef, aborted, send, nextSend, op>>
    /\ NoServer

ClearCurrentChat ==
    /\ messages' = <<>>
    /\ currentSession' = NoSession
    /\ UNCHANGED <<sessions, isGenerating, selectedModel,
                   abortControllerRef, aborted, send, nextSend, op>>
    /\ NoServer

\* ------------------------------------------------------------------ session operations
NoSendStep == UNCHANGED <<send, nextSend>>

\* loadSessions() called on its own.
LoadSessions ==
    /\ op.kind = "none"
    /\ op' = [IdleOp EXCEPT !.kind = "load", !.pc = "getSessions",
                            !.capCur = currentSession]
    /\ Install(Hook)
    /\ NoSendStep
    /\ NoServer

\* createNewSession(model), as startNewChat calls it.
CreateNewSession(model) ==
    /\ op.kind = "none"
    /\ op' = [IdleOp EXCEPT !.kind = "create", !.pc = "createSession",
                            !.model = model, !.capCur = currentSession]
    /\ Install(Hook)
    /\ NoSendStep
    /\ NoServer

CreateSessionSettled(ok) ==
    /\ op.pc = "createSession"
    /\ IF ok
       THEN /\ allocated < MaxSessions
            /\ LET newSession == Session(allocated + 1, op.model) IN
               /\ store' = store \cup {newSession}
               /\ allocated' = allocated + 1
               /\ UNCHANGED ctx
               /\ op' = [op EXCEPT !.pc = "getSessions", !.session = newSession]
            /\ Install(Hook)
       ELSE /\ op' = Ended("Failed to create session")
            /\ NoServer
            /\ Install(createNewSessionCatch(Hook, op.model))
    /\ NoSendStep

switchToSession(sessionId) ==
    /\ op.kind = "none"
    /\ op' = [IdleOp EXCEPT !.kind = "switch", !.pc = "getSession", !.id = sessionId]
    /\ Install(Hook)
    /\ NoSendStep
    /\ NoServer

\* apiService.getSession settles: found only if the collaborator holds the id.
GetSessionSettled(ok) ==
    /\ op.pc = "getSession"
    /\ IF ok
       THEN /\ \E x \in store : x.id = op.id
            /\ op' = [op EXCEPT !.pc = "getSessionMessages",
                                !.session = CHOOSE x \in store : x.id = op.id]
       ELSE op' = Ended("Failed to fetch session")
    /\ Install(Hook)
    /\ NoSendStep
    /\ NoServer

\* apiService.getSessionMessages settles: the conversation is replaced.
GetSessionMessagesSettled(ok, sessionMessages) ==
    /\ op.pc = "getSessionMessages"
    /\ op' = Ended(IF ok THEN "returned" ELSE "Failed to fetch session messages")
    /\ Install(switchToSessionSettled(Hook, ok, op.session, sessionMessages))
    /\ NoSendStep
    /\ NoServer

deleteSession(sessionId) ==
    /\ op.kind = "none"
    /\ op' = [IdleOp EXCEPT !.kind = "delete", !.pc = "deleteSession",
                            !.id = sessionId, !.capCur = currentSession]
    /\ Install(Hook)
    /\ NoSendStep
    /\ NoServer

DeleteSessionSettled(ok) ==
    /\ op.pc = "deleteSession"
    /\ IF ok
       THEN /\ \E x \in store : x.id = op.id
            /\ store' = { x \in store : x.id # op.id }
            /\ op' = [op EXCEPT !.pc = "getSessions"]
       ELSE /\ op' = Ended("Failed to delete session")
            /\ store' = store
    /\ UNCHANGED <<allocated, ctx>>
    /\ Install(Hook)
    /\ NoSendStep

\* What follows `await loadSessions()` in the operation that awaited it.
afterLoad(h, o) ==
    IF o.kind = "create" THEN installNewSession(h, o.session, o.model)
    ELSE IF o.kind = "delete" /\ o.capCur # NoSession /\ o.capCur.id = o.id
    THEN [h EXCEPT !.currentSession = NoSession, !.messages = <<>>,
                   !.selectedModel = NoModel]
    ELSE h

\* The getSessions() of the session operation in flight settles.
GetSessionsSettled(ok) ==
    /\ op.pc = "getSessions"
    /\ op' = IF op.kind = "create" THEN Returning(op.session) ELSE Ended("returned")
    /\ Install(afterLoad(loadSessionsSettled(Hook, op.capCur, ok, store), op))
    /\ NoSendStep
    /\ NoServer

\* ------------------------------------------------------------------ specifications
\* Reads of the hook specifications deliver whole lines.
NextLineLength(r) ==
    LET rest == SubSeq(r.body, r.pos + 1, Len(r.body)) IN Len(Head(split(rest))) + 1

\* The chunk lengths of the decoder specification: nothing, a few
\* characters, or all that is left.
ChunkLengths(r) == (0..MaxChunk) \cup {Len(r.body) - r.pos}

\* The hook with its sends, stop and model selection.  The only session
\* operations are those sendMessage makes; the getSessions() of the mount
\* effect stays unanswered (SessionSpec answers it).
Next ==
    \/ \E s \in Sends, content \in Inputs : SendMessage(s, content)
    \/ \E s \in Sends, input \in Inputs : HandleSubmit(s, input)
    \/ \E s \in Sends, ok \in BOOLEAN : SendCreateSessionSettled(s, ok)
    \/ \E s \in Sends, ok \in BOOLEAN : SendSessionInstalled(s, ok)
    \/ \E s \in Sends, status \in {"ok", "http"} : SendFetchSettled(s, status, HookBodies)
    \/ \E s \in Sends : SendReadChunk(s, NextLineLength(send[s]))
    \/ \E s \in Sends : SendReadDone(s)
    \/ \E s \in Sends : SendReadRejected(s)
    \/ \E s \in Sends, ok \in BOOLEAN : SendRefreshSettled(s, ok)
    \/ StopGeneration
    \/ \E model \in Models : SetSelectedModel(model)

Spec == Init /\ [][Next]_vars

\* The hook with one send and every session operation.
OneSend == {1}
SessionNext ==
    \/ \E s \in OneSend, content \in Inputs : SendMessage(s, content)
    \/ \E s \in OneSend, ok \in BOOLEAN : SendCreateSessionSettled(s, ok)
    \/ \E s \in OneSend, ok \in BOOLEAN : SendSessionInstalled(s, ok)
    \/ \E s \in OneSend, status \in {"ok", "http"} : SendFetchSettled(s, status, HookBodies)
    \/ \E s \in OneSend : SendReadChunk(s, NextLineLength(send[s]))
    \/ \E s \in OneSend : SendReadDone(s)
    \/ \E s \in OneSend : SendReadRejected(s)
    \/ \E s \in OneSend, ok \in BOOLEAN : SendRefreshSettled(s, ok)
    \/ StopGeneration
    \/ \E model \in Models : SetSelectedModel(model)
    \/ ClearCurrentChat
    \/ LoadSessions
    \/ \E model \in Models : CreateNewSession(model)
    \/ \E ok \in BOOLEAN : CreateSessionSettled(ok)
    \/ \E id \in SessionIds : switchToSession(id)
    \/ \E ok \in BOOLEAN : GetSessionSettled(ok)
    \/ \E ok \in BOOLEAN, sessionMessages \in PersistedLists :
          GetSessionMessagesSettled(ok, sessionMessages)
    \/ \E id \in SessionIds : deleteSession(id)
    \/ \E ok \in BOOLEAN : DeleteSessionSettled(ok)
    \/ \E ok \in BOOLEAN : GetSessionsSettled(ok)

SessionSpec == Init /\ [][SessionNext]_vars

\* One request against an existing session, its body any of Bodies, cut
\* into chunks in every way.
DecInit ==
    /\ messages = <<>>
    /\ sessions = {Session(1, "llama3")}
    /\ currentSession = Session(1, "llama3")
    /\ isGenerating = FALSE
    /\ selectedModel = "llama3"
    /\ abortControllerRef = 0
    /\ aborted = [s \in Sends |-> FALSE]
    /\ send = [s \in Sends |-> IdleSend]
    /\ nextSend = 1
    /\ op = IdleOp
    /\ store = {Session(1, "llama3")}
    /\ allocated = 1
    /\ ctx = NoCtx

DecNext ==
    \/ \E s \in OneSend : SendMessage(s, <<"h">>)
    \/ \E s \in OneSend : SendFetchSettled(s, "ok", Bodies)
    \/ \E s \in OneSend : \E n \in ChunkLengths(send[s]) : SendReadChunk(s, n)
    \/ \E s \in OneSend : SendReadDone(s)
    \/ \E s \in OneSend, ok \in BOOLEAN : SendRefreshSettled(s, ok)

DecSpec == DecInit /\ [][DecNext]_vars

\* ------------------------------------------------------------------ context of a request
\* The backend with one generation request at hand: the persisted history of
\* its session, and the limit and the prompt the request carries.
maxContextMessages == 10
PersistedTexts == {"q", "r", "s"}
Histories == UNION { [1..k -> PersistedTexts] : k \in 0..MaxHistory }
Limits == (0..MaxLimit) \cup {maxContextMessages}
Min(a, b) == IF a <= b THEN a ELSE b

\* A selection of the oldest messages.
selectOldest(history, limit) == SubSeq(history, 1, Min(Len(history), limit))
\* ContextWindowPolicy.select: the most recent `limit` messages, in order.
select(history, limit) ==
    SubSeq(history, Len(history) - Min(Len(history), limit) + 1, Len(history))

\* The backend assembles the context of the request: the selection from the
\* history, then the new user message.
AssembleContext ==
    /\ ctx.pc = "received"
    /\ ctx' = [ctx EXCEPT !.context = select(ctx.history, ctx.limit) \o <<ctx.prompt>>,
                          !.pc = "assembled"]
    /\ UNCHANGED <<messages, sessions, currentSession, isGenerating, selectedModel,
                   abortControllerRef, aborted, send, nextSend, op, store, allocated>>

CtxInit ==
    /\ messages = <<>>
    /\ sessions = {}
    /\ currentSession = NoSession
    /\ isGenerating = FALSE
    /\ selectedModel = NoModel
    /\ abortControllerRef = 0
    /\ aborted = [s \in Sends |-> FALSE]
    /\ send = [s \in Sends |-> IdleSend]
    /\ nextSend = 1
    /\ op = IdleOp
    /\ store = {}
    /\ allocated = 0
    /\ \E history \in Histories, limit \in Limits :
          ctx = [history |-> history, limit |-> limit, prompt |-> "h",
                 context |-> <<>>, pc |-> "received"]

CtxNext == AssembleContext

CtxSpec == CtxInit /\ [][CtxNext]_vars

\* ------------------------------------------------------------------ vocabulary of the properties
\* A generation is in flight from the creation of its controller until its
\* stream has ended, failed or been aborted.
InFlight(s) == send[s].pc \in {"fetch", "read"} /\ ~aborted[s]
\* The stream of send s ended by itself and the send has not settled yet.
StreamCompleted(s) == send[s].pc = "refresh"
\* A step in which stopGeneration cancels the controller it holds.
CancelStep == abortControllerRef # 0 /\ aborted' # aborted

\* The frames of the wire protocol, as the design defines them.
IsErrorFrame(line) ==
    \/ \E e \in Errors : line = Line(JsonError(e))
    \/ \E e \in Errors, c \in Contents : line = Line(JsonErrorContent(e, c))
IsDoneFrame(line) ==
    \/ line = Line(JsonDone)
    \/ \E c \in Contents : line = Line(JsonContentDone(c))
IsMalformed(line) == line = Line(NotJson)
\* The text of the Content event of a line; the empty text if it has none.
ContentEventOf(line) ==
    IF \E c \in Contents : line \in {Line(JsonContent(c)), Line(JsonContentDone(c))}
    THEN CHOOSE c \in Contents : line \in {Line(JsonContent(c)), Line(JsonContentDone(c))}
    ELSE <<>>

\* The complete lines delivered to send record r so far.
DeliveredLines(r) == Front(split(SubSeq(r.body, 1, r.pos)))
\* The lines of `lines` up to and including the first done frame.
UpToDone(lines) ==
    LET dones == { k \in 1..Len(lines) : IsDoneFrame(lines[k]) } IN
    IF dones = {} THEN lines
    ELSE SubSeq(lines, 1, CHOOSE k \in dones : \A j \in dones : k <= j)
\* A done frame is among the lines delivered to r.
DoneSeen(r) == \E k \in 1..Len(DeliveredLines(r)) : IsDoneFrame(DeliveredLines(r)[k])
\* The Content events of `lines`, in line order.
RECURSIVE ContentEvents(_)
ContentEvents(lines) ==
    IF lines = <<>> THEN <<>>
    ELSE (IF ContentEventOf(Head(lines)) = <<>> THEN <<>>
          ELSE <<ContentEventOf(Head(lines))>>) \o ContentEvents(Tail(lines))
\* The Content event of the unterminated tail of the body of r, due once the
\* body is exhausted with no done frame seen.
TailEvents(r) ==
    LET tail == Last(split(r.body)) IN
    IF r.pc = "refresh" /\ ~DoneSeen(r)
       /\ \E c \in Contents \ {<<>>} :
             tail \in {Line(JsonContent(c)), DataColon \o JsonContent(c), JsonContent(c)}
    THEN << CHOOSE c \in Contents :
               tail \in {Line(JsonContent(c)), DataColon \o JsonContent(c), JsonContent(c)} >>
    ELSE <<>>
\* The Content events the design prescribes for what r has been delivered.
ExpectedEvents(r) == ContentEvents(UpToDone(DeliveredLines(r))) \o TailEvents(r)

\* What generateResponse hands to onChunk when the body arrives as one chunk.
OneChunkEvents(body) ==
    LET pieces == split(body)
        res == processLines(completeLines(pieces))
    IN IF res.returned THEN res.emit ELSE res.emit \o flushBuffer(carryOver(pieces))
\* The same for the part of the body delivered so far, the stream still open.
OneChunkEventsSoFar(r) ==
    processLines(completeLines(split(SubSeq(r.body, 1, r.pos)))).emit

\* ------------------------------------------------------------------ properties
\* C1: when the stream of a send has completed and stopGeneration then
\* cancels that send's controller (the send still awaits the session-list
\* refresh), the completed message keeps exactly its streamed content: it
\* gets no stop marker and is not removed.
C1_CompletedMessageKept ==
    [][\A s \in Sends :
          (StreamCompleted(s) /\ abortControllerRef = s /\ CancelStep)
              => messages' = messages]_vars

\* C2: at most one generation is in flight at any time.
C2_OneGenerationInFlight == Cardinality({ s \in Sends : InFlight(s) }) <= 1

\* C3: an error frame is fatal: once a complete error frame has been
\* delivered (no done frame before it) the request is neither still reading
\* nor completed as a success.
C3_ErrorFrameFatal ==
    \A s \in Sends :
        send[s].pc \in {"read", "refresh"}
            => ~\E k \in 1..Len(UpToDone(DeliveredLines(send[s]))) :
                   IsErrorFrame(UpToDone(DeliveredLines(send[s]))[k])

\* C4: however the body is cut into chunks, the content deltas handed to
\* onChunk are those of the body arriving as one chunk, while the stream is
\* read and when it has ended.
C4_ChunkBoundaryInsensitive ==
    \A s \in Sends :
        /\ send[s].pc = "read" => send[s].emitted = OneChunkEventsSoFar(send[s])
        /\ send[s].pc = "refresh" => send[s].emitted = OneChunkEvents(send[s].body)
\* A frame has been decoded and the next chunk ended inside the JSON of the
\* following frame.
C4_Witness ==
    \E s \in Sends :
        /\ send[s].pc = "read"
        /\ send[s].emitted = << <<"a">> >>
        /\ send[s].buffer = SubSeq(Line(JsonContent(<<"b">>)), 1, 11)

\* C5: during streaming and at its end the trailing placeholder holds the
\* concatenation, in line order, of the Content events of the frames decoded
\* so far (a frame with an error field has no Content event).
C5_ContentInArrivalOrder ==
    \A s \in Sends :
        send[s].pc \in {"read", "refresh"}
            => /\ send[s].emitted = ExpectedEvents(send[s])
               /\ Len(messages) > 0
               /\ Last(messages) = Message("ai", Flatten(ExpectedEvents(send[s])), s)
\* The scenario "Hel", "lo", done: two contents and a done frame, all read.
C5_Witness ==
    \E s \in Sends :
        /\ send[s].pc = "refresh"
        /\ send[s].body = JoinLines(<<Line(JsonContent(<<"a">>)),
                                      Line(JsonContent(<<"b">>)), Line(JsonDone)>>)
        /\ Last(messages).content = <<"a", "b">>

\* C6: at most one message is streaming (the placeholder of a generation in
\* flight) and it is the last of the list.
IsStreaming(i) ==
    /\ messages[i].type = "ai"
    /\ \E s \in Sends : InFlight(s) /\ messages[i].timestamp = s
C6_OneStreamingMessageLast ==
    /\ Cardinality({ i \in 1..Len(messages) : IsStreaming(i) }) <= 1
    /\ \A i \in 1..Len(messages) : IsStreaming(i) => i = Len(messages)

\* C7 as claimed: a cancel removes the trailing assistant message if its
\* content is empty and otherwise appends the stop marker once.
C7_AsClaimed ==
    [][(CancelStep /\ Len(messages) > 0 /\ Last(messages).type = "ai")
          => IF Last(messages).content = <<>>
             THEN messages' = Front(messages)
             ELSE messages' = [messages EXCEPT ![Len(messages)].content =
                                                  @ \o StopMarker]]_vars
\* C7 amended: a cancel removes the trailing assistant message if its
\* content is empty or only whitespace (the list shrinks by that one message)
\* and otherwise leaves the list as long as it was, the content followed by
\* one stop marker.
C7_CancelReconcilesOnce ==
    [][(CancelStep /\ Len(messages) > 0 /\ Last(messages).type = "ai")
          => IF \A i \in 1..Len(Last(messages).content) :
                   Last(messages).content[i] \in Whitespace
             THEN messages' = Front(messages)
             ELSE messages' = [messages EXCEPT ![Len(messages)].content =
                                                  @ \o StopMarker]]_vars
\* A generation was cancelled after the content "a" had been streamed.
C7_Witness ==
    \E s \in Sends :
        /\ aborted[s]
        /\ Len(messages) > 0
        /\ Last(messages) = Message("ai", <<"a">> \o StopMarker, s)

\* C8: when a switch or delete aimed at the session of a generation in
\* flight replaces or clears the conversation, that generation is no longer
\* in flight afterwards.
C8_SwitchCancelsGeneration ==
    [][\A s \in Sends :
          (/\ InFlight(s)
           /\ op.kind \in {"switch", "delete"}
           /\ op.id = send[s].sessionId
           /\ op'.kind = "none"
           /\ messages' # messages)
              => ~(send'[s].pc \in {"fetch", "read"} /\ ~aborted'[s])]_vars

\* A sendMessage call with a model and a text, made while the generating
\* flag is set.
SendWhileGenerating(s) ==
    /\ send[s].pc = "idle"
    /\ send'[s].pc # "idle"
    /\ send'[s].outcome # "rejected"
    /\ isGenerating
\* C9 as claimed: such a call cancels the active generation, appends the
\* user message and a placeholder and starts a generation for them.
C9_AsClaimed ==
    [][\A s \in Sends :
          SendWhileGenerating(s)
              => /\ send'[s].pc = "fetch"
                 /\ Len(messages') >= 2
                 /\ messages'[Len(messages') - 1].type = "user"
                 /\ Last(messages') = Message("ai", <<>>, s)]_vars
\* C9 amended: such a call cancels the active generation and returns: the
\* controller is aborted and released, the generating flag is reset, no
\* message is appended and no request is issued.
C9_SendWhileGeneratingOnlyCancels ==
    [][\A s \in Sends :
          SendWhileGenerating(s)
              => /\ send'[s].pc = "done"
                 /\ abortControllerRef # 0
                 /\ aborted'[abortControllerRef]
                 /\ abortControllerRef' = 0
                 /\ ~isGenerating'
                 /\ Len(messages') <= Len(messages)
                 /\ \A i \in 1..Len(messages') : messages'[i].timestamp # s]_vars
\* A send was made while a generation was active.
C9_Witness == \E s \in Sends : send[s].outcome = "stopped"

\* C10: a `data: ` line that does not parse yields no event and does not
\* end the decoding: with such a line among those delivered, the deltas are
\* the Content events of the other lines and the message shows no error.
C10_MalformedLineSkipped ==
    \A s \in Sends :
        (/\ send[s].pc \in {"read", "refresh"}
         /\ \E k \in 1..Len(UpToDone(DeliveredLines(send[s]))) :
               IsMalformed(UpToDone(DeliveredLines(send[s]))[k]))
            => /\ send[s].emitted =
                    ContentEvents(SelectSeq(UpToDone(DeliveredLines(send[s])),
                                            LAMBDA l : ~IsMalformed(l)))
                       \o TailEvents(send[s])
               /\ ~startsWith(Last(messages).content, ErrorPrefix)
\* The scenario of a malformed line between two content lines, all read.
C10_Witness ==
    \E s \in Sends :
        /\ send[s].pc = "refresh"
        /\ send[s].body = JoinLines(<<Line(JsonContent(<<"a">>)), Line(NotJson),
                                      Line(JsonContent(<<"b">>))>>)
        /\ send[s].emitted = << <<"a">>, <<"b">> >>
        /\ Last(messages).content = <<"a", "b">>

\* The chunk a read step of send s delivers, and the newlines in it.
ChunkRead(s) == SubSeq(send[s].body, send[s].pos + 1, send'[s].pos)
\* A step of send s in which a read delivers a chunk.
ReadsChunk(s) ==
    /\ send[s].pc = "read"
    /\ ~aborted[s]
    /\ send[s].pos < Len(send[s].body)
    /\ send'[s].pc \in {"read", "refresh"}

\* C11: no event comes from an incomplete line.  While the stream is read
\* the carry-over is the text after the last newline delivered; a chunk
\* without a newline emits nothing and only extends the carry-over; a chunk
\* emits at most one event per line it completes; and a content frame begun
\* in the carry-over is emitted, once, by the chunk that brings its newline.
C11_NoEventFromIncompleteLine ==
    [][\A s \in Sends :
          ReadsChunk(s) =>
            LET r == send[s]
                chunk == ChunkRead(s)
                nls == Cardinality(NewlinesOf(chunk))
                first == Head(split(r.buffer \o chunk))
            IN /\ r.buffer = Last(split(SubSeq(r.body, 1, r.pos)))
               /\ Len(send'[s].emitted) - Len(r.emitted) <= nls
               /\ SubSeq(send'[s].emitted, 1, Len(r.emitted)) = r.emitted
               /\ nls = 0 =>
                    /\ send'[s].emitted = r.emitted
                    /\ messages' = messages
                    /\ send'[s].buffer = r.buffer \o chunk
               /\ (/\ nls = 1
                   /\ r.buffer # <<>>
                   /\ \E c \in Contents \ {<<>>} : first = Line(JsonContent(c)))
                    => send'[s].emitted = r.emitted \o <<ContentEventOf(first)>>]_vars
\* A frame was split across two chunks: the read that completed the line
\* "a" left the beginning of the frame "b" in the carry-over, and "a" was
\* itself completed from a carry-over.
C11_Witness ==
    \E s \in Sends :
        /\ send[s].pc = "read"
        /\ send[s].emitted = << <<"a">> >>
        /\ send[s].pos = Len(Line(JsonContent(<<"a">>))) + 3
        /\ send[s].buffer = SubSeq(DataPrefix, 1, 2)

\* How many stop markers a text holds.
MarkersIn(content) ==
    Cardinality({ i \in 1..Len(content) : content[i] = Last(StopMarker) })

\* C12: stopGeneration is idempotent.  In every reachable state a second
\* call in a row leaves what the first call left, a call made when no
\* controller is held changes nothing, and no message ever holds the stop
\* marker twice.
C12_CancelIdempotent ==
    /\ stopGeneration(stopGeneration(Hook)) = stopGeneration(Hook)
    /\ abortControllerRef = 0 => stopGeneration(Hook) = Hook
    /\ \A i \in 1..Len(messages) : MarkersIn(messages[i].content) <= 1
\* A generation was cancelled after "a" had been streamed, its send has not
\* settled yet, and the marked message is still the last one: the state a
\* second stopGeneration for the same request finds.
C12_Witness ==
    \E s \in Sends :
        /\ aborted[s]
        /\ send[s].pc = "read"
        /\ abortControllerRef = 0
        /\ Len(messages) > 0
        /\ Last(messages) = Message("ai", <<"a">> \o StopMarker, s)

\* Send s has been cancelled and its request has not settled yet.
Cancelled(s) == aborted[s] /\ send[s].pc \in {"fetch", "read"}

\* The hook of SessionSpec with a network that settles what it was asked:
\* a pending fetch and a pending read of a request do not stay pending for
\* ever.
CancelSpec ==
    /\ SessionSpec
    /\ \A s \in OneSend :
          /\ WF_vars(\E status \in {"ok", "http"} : SendFetchSettled(s, status, HookBodies))
          /\ WF_vars(SendReadRejected(s))

ShowsError(msgs, i) == startsWith(msgs[i].content, ErrorPrefix)

\* C14: a cancellation is never shown as an error.  Neither the step that
\* cancels nor the step in which the cancelled request settles (its fetch or
\* read ending in an AbortError) puts an error text into any message, and the
\* settling leaves the conversation as the reconciliation left it.
C14_AbortNotRendered ==
    [][\A s \in Sends :
          /\ (Cancelled(s) /\ send'[s].pc = "done")
                => /\ send'[s].outcome = "aborted"
                   /\ Len(messages') = Len(messages)
                   /\ \A i \in 1..Len(messages') :
                         ShowsError(messages', i) => ShowsError(messages, i)
          /\ (abortControllerRef = s /\ CancelStep)
                => \A i \in 1..Len(messages') :
                      ShowsError(messages', i) => ShowsError(messages, i)]_vars
\* A generation was cancelled before anything was streamed and its fetch has
\* settled: the placeholder is gone and only the user message is left.
C14_Witness ==
    \E s \in Sends :
        /\ aborted[s]
        /\ send[s].outcome = "aborted"
        /\ messages = <<Message("user", <<"h">>, s)>>

\* A step in which a loadSessions() ends that was called directly, from
\* deleteSession, or from sendMessage after the stream.
RefreshEnds ==
    \/ op.kind \in {"load", "delete"} /\ op.pc = "getSessions" /\ op'.pc = "none"
    \/ \E s \in Sends : send[s].pc = "refresh" /\ send'[s].pc = "done"
\* A step in which the loadSessions() inside createNewSession ends.
RefreshInCreateEnds ==
    \/ op.kind = "create" /\ op.pc = "getSessions" /\ op'.pc = "none"
    \/ \E s \in Sends : send[s].pc = "getSessions" /\ send'[s].pc = "fetch"
\* The refresh of this step succeeded with a list (not empty, which tells it
\* from a failed one) that lacks the session current when it ends.
CurrentAbsentFromRefreshed ==
    /\ store # {}
    /\ sessions' = store
    /\ currentSession # NoSession
    /\ currentSession.id \notin SessionIdsOf(store)

\* C15: when a refresh of the session list succeeds and the session current
\* at that moment is not in the list, the current session is cleared and the
\* conversation emptied (inside createNewSession: the absent session is
\* replaced by the new one).
C15_RefreshReconciles ==
    [][CurrentAbsentFromRefreshed
          => /\ RefreshEnds => (currentSession' = NoSession /\ messages' = <<>>)
             /\ RefreshInCreateEnds => currentSession' # currentSession]_vars

\* A step in which switchToSession throws to its caller.
SwitchThrows ==
    /\ op.kind = "switch"
    /\ op'.result \in {"Failed to fetch session", "Failed to fetch session messages"}

\* C16: a switchToSession whose session fetch or message fetch fails throws
\* and leaves the current session, the conversation and the selected model
\* as they were; the fetch of a session the collaborator no longer holds can
\* only fail.
C16_FailedSwitchChangesNothing ==
    [][/\ SwitchThrows
          => /\ currentSession' = currentSession
             /\ messages' = messages
             /\ selectedModel' = selectedModel
       /\ (op.pc = "getSession" /\ op.id \notin SessionIdsOf(store) /\ op' # op)
          => SwitchThrows]_vars
\* The message fetch of a switch to an existing session has failed while a
\* session with a conversation was current and the collaborator held others.
C16_Witness ==
    /\ op.result = "Failed to fetch session messages"
    /\ currentSession # NoSession
    /\ messages # <<>>
    /\ store # {currentSession}

\* A step in which the createSession call of createNewSession fails, in a
\* createNewSession called on its own or by sendMessage.
CreateFails ==
    \/ op.kind = "create" /\ op'.result = "Failed to create session"
    \/ \E s \in Sends : send[s].pc = "createSession" /\ send'[s].outcome = "createFailed"

\* C17: a createNewSession whose createSession call fails throws (sendMessage
\* catches it and returns) and sets nothing: current session, conversation,
\* selected model and session list are unchanged, and no session exists that
\* did not exist before.
C17_FailedCreateChangesNothing ==
    [][CreateFails
          => /\ currentSession' = currentSession
             /\ messages' = messages
             /\ selectedModel' = selectedModel
             /\ sessions' = sessions
             /\ store' = store]_vars
\* A createNewSession has thrown while a session with a conversation was
\* current and listed.
C17_Witness ==
    /\ op.result = "Failed to create session"
    /\ currentSession # NoSession
    /\ currentSession \in sessions
    /\ messages # <<>>

\* A step in which a loadSessions() called on its own ends.
DirectRefreshEnds == op.kind = "load" /\ op.pc = "getSessions" /\ op'.pc = "none"

\* C18: a refresh either succeeds, and the session list is the list of the
\* collaborator, or fails, and then the session list, the current session
\* and the conversation are what they were.
C18_FailedRefreshChangesNothing ==
    [][DirectRefreshEnds
          => \/ sessions' = store
             \/ /\ sessions' = sessions
                /\ currentSession' = currentSession
                /\ messages' = messages]_vars

\* A step in which a deleteSession ends whose collaborator call succeeded.
DeleteEnds == op.kind = "delete" /\ op.pc = "getSessions" /\ op'.pc = "none"

\* C19: when a successful deleteSession(id) ends and id is the session
\* current at that moment, the hook is left with no session: no current
\* session, an empty conversation, no selected model.
C19_DeleteOfCurrentResets ==
    [][(DeleteEnds /\ currentSession # NoSession /\ currentSession.id = op.id)
          => /\ currentSession' = NoSession
             /\ messages' = <<>>
             /\ selectedModel' = NoModel]_vars

\* A step in which switchToSession returns.
SwitchReturns == op.kind = "switch" /\ op'.result = "returned"
\* The conversation `msgs` is the persisted list, record by record.
IsConversationOf(msgs, persisted) ==
    /\ Len(msgs) = Len(persisted)
    /\ \A i \in 1..Len(persisted) :
          /\ msgs[i].content = persisted[i].content
          /\ msgs[i].timestamp = persisted[i].timestamp
          /\ msgs[i].type = (IF persisted[i].role = "user" THEN "user" ELSE "ai")

\* C20: a switchToSession that succeeds replaces the conversation: the
\* fetched session is current, its model is selected, and the messages are
\* the persisted ones, as many and in their order, role `user` as user and
\* any other role as assistant; nothing of the previous conversation is left.
C20_SwitchReplacesConversation ==
    [][SwitchReturns
          => /\ currentSession' = op.session
             /\ op.session.id = op.id
             /\ selectedModel' = op.session.model
             /\ \E persisted \in PersistedLists : IsConversationOf(messages', persisted)
             /\ \A i \in 1..Len(messages') : messages'[i].timestamp = 0]_vars
\* A switch has returned with a persisted conversation of three records, the
\* last of a role that is neither user nor assistant.
C20_Witness ==
    /\ op.result = "returned"
    /\ currentSession # NoSession
    /\ Len(messages) = 3
    /\ messages[1].type = "user"
    /\ messages[3] = Message("ai", <<"n">>, 0)

\* A step in which a createNewSession called on its own returns.
CreateReturns == op.kind = "create" /\ op.pc = "getSessions" /\ op'.pc = "none"

\* C21: a createNewSession whose createSession call succeeded returns the
\* session of the collaborator, installed as current, with an empty
\* conversation and its model selected, whatever its refresh of the list did
\* (succeeded, failed, cleared the previous current session).  Called by
\* sendMessage, the same, and the conversation is then the two messages of
\* that send.
C21_CreateInstallsSession ==
    [][/\ CreateReturns
          => /\ op'.result = "returned"
             /\ op'.value = op.session
             /\ currentSession' = op.session
             /\ messages' = <<>>
             /\ selectedModel' = op.model
       /\ \A s \in Sends :
            (send[s].pc = "getSessions" /\ send'[s].pc = "fetch")
               => /\ currentSession' = send[s].newSession
                  /\ send'[s].sessionId = send[s].newSession.id
                  /\ selectedModel' = send[s].model
                  /\ messages' = <<Message("user", send[s].text, s),
                                   Message("ai", <<>>, s)>>]_vars
\* After a send, a createNewSession returned the second session, installed
\* with an empty conversation, and its refresh of the list had failed.
C21_Witness ==
    /\ op.result = "returned"
    /\ op.value # NoSession
    /\ currentSession = op.value
    /\ currentSession.id = 2
    /\ messages = <<>>
    /\ sessions = {}
    /\ \E s \in Sends : send[s].pc \in {"fetch", "read", "refresh", "done"} /\ send[s].outcome # "rejected"

\* A step in which the fetch of send s settles and the request fails (the
\* response has a status that is not OK).
FetchFails(s) ==
    /\ send[s].pc = "fetch"
    /\ ~aborted[s]
    /\ send'[s].pc = "done"

\* C22: a response with a status that is not OK fails the request before
\* anything is decoded: no chunk has been read and no delta applied, the last
\* message is replaced by the error text of the status (the list keeps its
\* length), the call ends without another request, the generating flag is
\* false and the controller released.
C22_HttpErrorFailsBeforeDecoding ==
    [][\A s \in Sends :
          FetchFails(s)
             => /\ send[s].pos = 0 /\ send[s].emitted = <<>> /\ send[s].aiResponse = <<>>
                /\ send'[s].outcome = "error"
                /\ Len(messages') = Len(messages)
                /\ Len(messages') > 0
                /\ Last(messages').type = "ai"
                /\ Last(messages').content = ErrorPrefix \o HttpErrorMessage
                /\ Front(messages') = Front(messages)
                /\ ~isGenerating'
                /\ abortControllerRef' = 0]_vars
\* The only request made got a status that was not OK: the conversation is
\* the user message and the error text.
C22_Witness ==
    \E s \in Sends :
        /\ send[s].outcome = "error"
        /\ nextSend = s + 1
        /\ Len(messages) = 2
        /\ messages[1] = Message("user", <<"h">>, s)
        /\ messages[2].content = ErrorPrefix \o HttpErrorMessage

\* C23: the context of a request is the min(len(history), N) most recent
\* messages of the history, in their order, followed by the new user message,
\* which is not counted against N and is never dropped.
C23_SelectIsSuffix ==
    ctx.pc = "assembled" =>
        LET selected == select(ctx.history, ctx.limit)
            n == Min(Len(ctx.history), ctx.limit)
        IN /\ Len(selected) = n
           /\ \A i \in 1..n : selected[i] = ctx.history[Len(ctx.history) - n + i]
           /\ ctx.context = selected \o <<ctx.prompt>>
           /\ Len(ctx.context) = n + 1
\* A history of three messages was cut to its last two.
C23_Witness ==
    /\ ctx.pc = "assembled"
    /\ ctx.history = <<"q", "r", "s">>
    /\ ctx.limit = 2
    /\ ctx.context = <<"r", "s", "h">>

\* The lines the chunk of this read step completes, carry-over included.
LinesCompleted(s) == Front(split(send[s].buffer \o ChunkRead(s)))

\* C24: a done frame ends the decoding at once and successfully.  The read
\* that completes a done frame applies the contents of the lines up to and
\* including that frame, in order, and returns: the lines behind it yield
\* nothing; and once the stream has ended on a done frame, nothing is read,
\* emitted or flushed any more.
C24_DoneEndsDecoding ==
    [][\A s \in Sends :
          /\ (/\ ReadsChunk(s)
              /\ \E k \in 1..Len(LinesCompleted(s)) : IsDoneFrame(LinesCompleted(s)[k]))
                => /\ send'[s].pc = "refresh"
                   /\ send'[s].emitted =
                        send[s].emitted \o ContentEvents(UpToDone(LinesCompleted(s)))
                   /\ messages' = replaceLast(messages,
                                     Message("ai", Flatten(send'[s].emitted), s))
          /\ (send[s].pc = "refresh" /\ DoneSeen(send[s]) /\ send'[s] # send[s])
                => /\ send'[s] = Finished("complete")
                   /\ messages' = messages]_vars
\* One chunk brought a frame with content "b" and done, and a content frame
\* behind it: only "b" was applied.
C24_Witness ==
    \E s \in Sends :
        /\ send[s].pc = "refresh"
        /\ send[s].body = JoinLines(<<Line(JsonContentDone(<<"b">>)),
                                      Line(JsonContent(<<"a">>))>>)
        /\ send[s].pos = Len(send[s].body)
        /\ send[s].emitted = << <<"b">> >>
        /\ Last(messages).content = <<"b">>

\* The content of the record an unterminated rest holds, the prefix `data:`
\* and blanks behind it set aside; the empty text if it holds none.
FinalContent(rest) ==
    IF \E c \in Contents :
          rest \in {Line(JsonContent(c)), DataColon \o JsonContent(c), JsonContent(c)}
    THEN CHOOSE c \in Contents :
          rest \in {Line(JsonContent(c)), DataColon \o JsonContent(c), JsonContent(c)}
    ELSE <<>>
\* A step in which the read of send s reports the end of a body in which no
\* done frame and no error frame was delivered.
StreamExhausted(s) ==
    /\ send[s].pc = "read"
    /\ send[s].pos = Len(send[s].body)
    /\ send'[s].pc # "read"
    /\ \A k \in 1..Len(DeliveredLines(send[s])) :
          ~IsDoneFrame(DeliveredLines(send[s])[k]) /\ ~IsErrorFrame(DeliveredLines(send[s])[k])

\* C25: when the body ends with no done and no error frame, the carry-over
\* (what follows the last newline) is parsed once, its `data:` prefix
\* stripped: its content, if it has one, is applied as the last delta, else
\* nothing is applied; either way generateResponse returns normally.
C25_FinalParseOfCarryOver ==
    [][\A s \in Sends :
          StreamExhausted(s)
             => /\ send[s].buffer = Last(split(send[s].body))
                /\ send'[s].pc = "refresh"
                /\ send'[s].aiResponse = send[s].aiResponse \o FinalContent(send[s].buffer)
                /\ send'[s].emitted =
                      send[s].emitted \o (IF FinalContent(send[s].buffer) = <<>> THEN <<>>
                                          ELSE <<FinalContent(send[s].buffer)>>)
                /\ FinalContent(send[s].buffer) # <<>>
                      => Last(messages') = Message("ai", send'[s].aiResponse, s)
                /\ FinalContent(send[s].buffer) = <<>> => messages' = messages]_vars
\* A body ended with the frame "b" unterminated and its prefix without the
\* blank, after a complete frame "a": both were applied.
C25_Witness ==
    \E s \in Sends :
        /\ send[s].pc = "refresh"
        /\ send[s].body = JoinLines(<<Line(JsonContent(<<"a">>))>>)
                             \o DataColon \o JsonContent(<<"b">>)
        /\ send[s].emitted = << <<"a">>, <<"b">> >>
        /\ Last(messages).content = <<"a", "b">>

\* Two sends, so that one generation settles while a later one is under way.
TwoSends == {1, 2}
SettleNext ==
    \/ \E s \in TwoSends, content \in Inputs : SendMessage(s, content)
    \/ \E s \in TwoSends, ok \in BOOLEAN : SendCreateSessionSettled(s, ok)
    \/ \E s \in TwoSends, ok \in BOOLEAN : SendSessionInstalled(s, ok)
    \/ \E s \in TwoSends, status \in {"ok", "http"} : SendFetchSettled(s, status, HookBodies)
    \/ \E s \in TwoSends : SendReadChunk(s, NextLineLength(send[s]))
    \/ \E s \in TwoSends : SendReadDone(s)
    \/ \E s \in TwoSends : SendReadRejected(s)
    \/ \E s \in TwoSends, ok \in BOOLEAN : SendRefreshSettled(s, ok)
    \/ StopGeneration
    \/ \E model \in Models : SetSelectedModel(model)
\* Every pending call of a generation returns in the end: the request is
\* answered, each read of the body yields a chunk of some length, the end or
\* an error, and the refresh of the session list is answered.
SettleSpec ==
    /\ Init
    /\ [][SettleNext]_vars
    /\ \A s \in TwoSends :
          /\ WF_vars(\E status \in {"ok", "http"} : SendFetchSettled(s, status, HookBodies))
          /\ WF_vars(\E n \in 1..Len(send[s].body) : SendReadChunk(s, n))
          /\ WF_vars(SendReadDone(s))
          /\ WF_vars(SendReadRejected(s))
          /\ WF_vars(\E ok \in BOOLEAN : SendRefreshSettled(s, ok))
\* Send s is inside the try block of sendMessage.
Generating(s) == send[s].pc \in {"fetch", "read", "refresh"}
\* sendMessage called in hook state h with a model selected takes the text.
Accepts(h, s, content) == sendMessageStart(h, s, content).pc \in {"createSession", "fetch"}

\* C26: every generation settles: its try block is left in the end, and the
\* step that leaves it yields a state with isGenerating false and no
\* controller held, in which sendMessage accepts a nonblank text.
C26_EverySendSettles ==
    /\ \A s \in Sends : Generating(s) ~> send[s].pc = "done"
    /\ [][\A s \in Sends :
             (Generating(s) /\ send'[s].pc = "done")
                 => /\ ~isGenerating'
                    /\ abortControllerRef' = 0
                    /\ selectedModel' # NoModel
                    /\ \A content \in Inputs :
                          trim(content) # <<>>
                             => Accepts([messages |-> messages', sessions |-> sessions',
                                         currentSession |-> currentSession',
                                         isGenerating |-> isGenerating',
                                         selectedModel |-> selectedModel',
                                         abortControllerRef |-> abortControllerRef',
                                         aborted |-> aborted'], s, content)]_vars
\* A cancelled generation settled after a later one had been taken, and the
\* later one settled after it.
C26_Witness ==
    /\ send[1].outcome = "aborted"
    /\ send[2].outcome = "complete"
    /\ Len(messages) = 4
    /\ ~isGenerating
    /\ abortControllerRef = 0

\* A step in which sendMessage s takes the text: it goes on to the request.
AcceptStep(s) == send[s].pc \in {"idle", "getSessions"} /\ send'[s].pc = "fetch"
\* A step in which a chunk of the body of send s yields content.
DeltaStep(s) ==
    /\ send[s].pc = "read"
    /\ send'[s].pc \in {"read", "refresh"}
    /\ Len(send'[s].emitted) > Len(send[s].emitted)
\* messages[i] is the placeholder that send s appended.
IsPlaceholderOf(i, s) == messages[i].type = "ai" /\ messages[i].timestamp = s

\* C27: an accepted send appends the user message with the trimmed text and
\* then an empty assistant placeholder, the messages before them unchanged;
\* a later content delta leaves the list as long as it was and changes at
\* most the content of that placeholder.
C27_SendAppendsTwoDeltasInPlace ==
    [][\A s \in Sends :
          /\ AcceptStep(s)
                => messages' = messages \o <<Message("user", send'[s].text, s),
                                             Message("ai", <<>>, s)>>
          /\ DeltaStep(s)
                => /\ Len(messages') = Len(messages)
                   /\ \A i \in 1..Len(messages) :
                         messages'[i] # messages[i]
                            => /\ IsPlaceholderOf(i, s)
                               /\ messages'[i] = [messages[i] EXCEPT
                                                    !.content = send'[s].aiResponse]]_vars

\* A frame whose record carries an error and a content.
IsErrorWithContent(line) ==
    \E e \in Errors, c \in Contents \ {<<>>} : line = Line(JsonErrorContent(e, c))

\* C28: the content of a frame that carries both an error and a content is
\* never applied: a read that completes such frames emits the deltas of the
\* other lines it completes, and leaves the messages alone if there are none.
C28_ErrorBeforeContent ==
    [][\A s \in Sends :
          (/\ ReadsChunk(s)
           /\ \E k \in 1..Len(UpToDone(LinesCompleted(s))) :
                 IsErrorWithContent(UpToDone(LinesCompleted(s))[k]))
             => LET others == SelectSeq(UpToDone(LinesCompleted(s)),
                                        LAMBDA l : ~IsErrorWithContent(l))
                IN /\ send'[s].emitted = send[s].emitted \o ContentEvents(others)
                   /\ send'[s].aiResponse =
                         send[s].aiResponse \o Flatten(ContentEvents(others))
                   /\ ContentEvents(others) = <<>> => messages' = messages
                   /\ ContentEvents(others) # <<>>
                         => Last(messages').content = send'[s].aiResponse]_vars
\* A body of a frame with error "x" and content "a" and then a frame with
\* content "b" was read to its end: only "b" was applied.
C28_Witness ==
    \E s \in Sends :
        /\ send[s].pc = "refresh"
        /\ send[s].body = JoinLines(<<Line(JsonErrorContent(<<"x">>, <<"a">>)),
                                      Line(JsonContent(<<"b">>))>>)
        /\ send[s].emitted = << <<"b">> >>
        /\ Last(messages).content = <<"b">>

\* ------------------------------------------------------------------ lines without the prefix
\* A comment line of an event stream.
CommentLine == <<":", "k">>
\* Lines that do not start with `data: `: a blank line, a comment, bare
\* records, records behind `data:` with no blank, a record behind a blank;
\* and two frames to tell them from.
PrefixLines ==
    { <<>>, CommentLine, JsonContent(<<"a">>), JsonDone, JsonError(<<"x">>),
      DataColon \o JsonContent(<<"a">>), DataColon \o JsonDone,
      <<SP>> \o Line(JsonContent(<<"a">>)),
      Line(JsonContent(<<"b">>)), Line(JsonDone) }
PrefixBodies == { JoinLines(ls) : ls \in UNION { [1..k -> PrefixLines] : k \in 1..MaxFrames } }
PrefixNext ==
    \/ \E s \in OneSend : SendMessage(s, <<"h">>)
    \/ \E s \in OneSend : SendFetchSettled(s, "ok", PrefixBodies)
    \/ \E s \in OneSend : \E n \in ChunkLengths(send[s]) : SendReadChunk(s, n)
    \/ \E s \in OneSend : SendReadDone(s)
    \/ \E s \in OneSend, ok \in BOOLEAN : SendRefreshSettled(s, ok)
PrefixSpec == DecInit /\ [][PrefixNext]_vars

\* The line starts with the six characters `data: `.
HasDataPrefix(line) == Len(line) >= 6 /\ \A i \in 1..6 : line[i] = DataPrefix[i]

\* C29: only complete lines that start with `data: ` count.  A read that
\* completes lines emits the deltas of those that start with it and returns
\* only on a done frame among them; if none of the lines it completes starts
\* with it, nothing is emitted, no message changes and the reading goes on.
C29_OnlyPrefixedLinesCount ==
    [][\A s \in Sends :
          ReadsChunk(s)
             => LET prefixed == SelectSeq(LinesCompleted(s), HasDataPrefix) IN
                /\ send'[s].emitted = send[s].emitted \o ContentEvents(UpToDone(prefixed))
                /\ send'[s].pc = "refresh"
                      <=> \E k \in 1..Len(prefixed) : IsDoneFrame(prefixed[k])
                /\ prefixed = <<>>
                      => /\ send'[s].emitted = send[s].emitted
                         /\ send'[s].aiResponse = send[s].aiResponse
                         /\ send'[s].pc = "read"
                         /\ messages' = messages]_vars
\* A body of the record with content "a" behind `data:` with no blank and
\* then a bare done record was read to its end: nothing was applied and the
\* reading only ended with the body.
C29_Witness ==
    \E s \in Sends :
        /\ send[s].pc = "refresh"
        /\ send[s].body = JoinLines(<<DataColon \o JsonContent(<<"a">>), JsonDone>>)
        /\ send[s].pos = Len(send[s].body)
        /\ send[s].emitted = <<>>
        /\ Last(messages) = Message("ai", <<>>, s)

\* A step in which sendMessage s, called with no current session, awaits
\* createNewSession.
AwaitsSession(s) == send[s].pc = "idle" /\ send'[s].pc = "createSession"
\* A step in which the createNewSession of send s returns the new session.
SessionReturned(s) == send[s].pc = "getSessions" /\ send'[s].pc = "fetch"
\* A step in which the createNewSession of send s throws.
SendCreateFails(s) == send[s].pc = "createSession" /\ send'[s].pc = "done"
\* No send but s is under way.
OnlySend(s) == \A t \in Sends \ {s} : send[t].pc \in {"idle", "done"}

\* C30: a send taken with no current session creates one before anything
\* else (nothing is appended and no request is made while it waits) and makes
\* the request with the id of the session the collaborator created; if the
\* creation fails the send ends there, with no message appended, no request
\* made and isGenerating as it was, which is false unless another send
\* raised it meanwhile.
C30_SendCreatesSessionFirst ==
    [][\A s \in Sends :
          /\ (send[s].pc = "idle" /\ send'[s].pc # "idle" /\ currentSession = NoSession
              /\ ~isGenerating /\ send'[s].outcome # "rejected")
                => /\ AwaitsSession(s)
                   /\ messages' = messages
                   /\ isGenerating' = isGenerating
          /\ (send[s].pc = "idle" /\ send'[s].pc = "fetch")
                => /\ currentSession # NoSession
                   /\ send'[s].sessionId = currentSession.id
          /\ SessionReturned(s)
                => /\ send[s].newSession \in store
                   /\ send[s].newSession.id # 0
                   /\ send'[s].sessionId = send[s].newSession.id
                   /\ currentSession' = send[s].newSession
          /\ SendCreateFails(s)
                => /\ send'[s] = Finished("createFailed")
                   /\ messages' = messages
                   /\ \A i \in 1..Len(messages') : messages'[i].timestamp # s
                   /\ isGenerating' = isGenerating
                   /\ abortControllerRef' = abortControllerRef
                   /\ store' = store
                   /\ OnlySend(s) => ~isGenerating']_vars
\* The creation of a session failed for one send, and a later send made its
\* request with the id of the session created for it.
C30_Witness ==
    \E s, t \in Sends :
        /\ send[s].outcome = "createFailed"
        /\ send[t].pc = "fetch"
        /\ send[t].sessionId = currentSession.id
        /\ currentSession \in store
        /\ Len(messages) = 2

\* A step in which send s leaves sendMessage with the given outcome.
SettlesWith(s, outcomes) == send[s].pc # "done" /\ send'[s].outcome \in outcomes

ErrorStep(s) == SettlesWith(s, {"error"})
\* A step in which stopGeneration cancels the generation of send s.
CancelStepOf(s) == abortControllerRef = s /\ aborted'[s] /\ ~aborted[s]
\* Every message the step changed or removed is the placeholder of send s.
OnlyPlaceholderTouched(s) ==
    /\ Len(messages') <= Len(messages)
    /\ \A i \in 1..Len(messages) :
          (i > Len(messages') \/ messages'[i] # messages[i]) => IsPlaceholderOf(i, s)

\* C32: the deltas, the error annotation and the stop marker of a generation
\* are written to the placeholder its own send appended and to no other
\* message, whatever conversation is installed by then.
C32_WritesOnlyOwnPlaceholder ==
    [][\A s \in Sends :
          (DeltaStep(s) \/ ErrorStep(s) \/ CancelStepOf(s)) => OnlyPlaceholderTouched(s)]_vars

\* C33: the controller held is that of the generation in flight.  The end
\* of one send leaves the controller and the flag of another send's
\* generation as they are, and while a generation is in flight isGenerating
\* is true and its controller is the one stopGeneration would abort (stated
\* of a generation that is the only one in flight).
C33_ControllerOfGenerationInFlight ==
    /\ [][\A s, t \in Sends :
             (s # t /\ InFlight(s) /\ abortControllerRef = s /\ SettlesWith(t, {"complete", "error", "aborted"}))
                => /\ abortControllerRef' = s
                   /\ isGenerating' = isGenerating]_vars
    /\ [](\A s \in Sends :
            (InFlight(s) /\ \A t \in Sends \ {s} : ~InFlight(t))
               => isGenerating /\ abortControllerRef = s)

\* The refresh of this step succeeded with a list (not empty, which tells it
\* from a failed one) that holds the session current when it ends.
CurrentPresentInRefreshed ==
    /\ store # {}
    /\ sessions' = store
    /\ currentSession # NoSession
    /\ currentSession.id \in SessionIdsOf(store)

\* C34: a refresh of the session list that succeeds with a list holding the
\* session current at that moment leaves the current session and its
\* conversation as they are, whatever session was current when the operation
\* that refreshes was called.
C34_RefreshKeepsPresentSession ==
    [][(RefreshEnds /\ CurrentPresentInRefreshed)
          => /\ currentSession' = currentSession
             /\ messages' = messages]_vars

\* C35: sends made from the state with no session, overlapping or not,
\* create at most one session, and every request is made for that session.
C35_OverlappingSendsOneSession ==
    /\ Cardinality(store) <= 1
    /\ \A s, t \in Sends :
          (send[s].pc \in {"fetch", "read", "refresh"} /\ send[t].pc \in {"fetch", "read", "refresh"})
             => send[s].sessionId = send[t].sessionId

\* ------------------------------------------------------------------ operations that overlap a deleteSession
\* The sessions the collaborator holds when the page is opened on them.
MaxStored == 3
StoredIds == 1..MaxStored
StoredSessions == { Session(id, "llama3") : id \in StoredIds }
\* The page with the first of the stored sessions current and its
\* conversation loaded.
OverlapInit ==
    /\ messages = formatMessages(<< [role |-> "user", content |-> <<"q">>, timestamp |-> 0],
                                    [role |-> "assistant", content |-> <<"r">>, timestamp |-> 0] >>)
    /\ sessions = StoredSessions
    /\ currentSession = Session(1, "llama3")
    /\ isGenerating = FALSE
    /\ selectedModel = "llama3"
    /\ abortControllerRef = 0
    /\ aborted = [s \in Sends |-> FALSE]
    /\ send = [s \in Sends |-> IdleSend]
    /\ nextSend = 1
    /\ op = IdleOp
    /\ store = StoredSessions
    /\ allocated = MaxStored
    /\ ctx = NoCtx
\* A second deleteSession(sessionId), called while the first is pending,
\* whose calls all succeed before anything else happens.
deleteSessionWhole(sessionId) ==
    /\ op.kind = "delete"
    /\ \E x \in store : x.id = sessionId
    /\ store' = { x \in store : x.id # sessionId }
    /\ Install(afterLoad(loadSessionsSettled(Hook, currentSession, TRUE, store'),
                         [IdleOp EXCEPT !.kind = "delete", !.id = sessionId,
                                        !.capCur = currentSession]))
    /\ UNCHANGED <<op, allocated, ctx>>
    /\ NoSendStep
\* A switchToSession(sessionId), called while a deleteSession is pending,
\* whose calls both succeed before anything else happens.
switchToSessionWhole(sessionId, sessionMessages) ==
    /\ op.kind = "delete"
    /\ \E x \in store : x.id = sessionId
    /\ Install(switchToSessionSettled(Hook, TRUE, CHOOSE x \in store : x.id = sessionId,
                                      sessionMessages))
    /\ UNCHANGED op
    /\ NoSendStep
    /\ NoServer
OverlapNext ==
    \/ \E id \in StoredIds : deleteSession(id)
    \/ \E ok \in BOOLEAN : DeleteSessionSettled(ok)
    \/ \E ok \in BOOLEAN : GetSessionsSettled(ok)
    \/ \E id \in StoredIds : deleteSessionWhole(id)
    \/ \E id \in StoredIds, sessionMessages \in PersistedLists :
          switchToSessionWhole(id, sessionMessages)
OverlapSpec == OverlapInit /\ [][OverlapNext]_vars

\* C36: a deleteSession of a session that is the current one neither when it
\* is called nor when it ends, and that ends with the current session in the
\* refreshed list, leaves the current session, the conversation and the
\* selected model as they are.
C36_DeleteOfOtherSessionFrame ==
    [][(/\ DeleteEnds
        /\ op.capCur.id # op.id
        /\ currentSession.id # op.id
        /\ CurrentPresentInRefreshed)
          => /\ currentSession' = currentSession
             /\ messages' = messages
             /\ selectedModel' = selectedModel]_vars

\* The stop markers the messages hold, all in all.
RECURSIVE MarkersInAll(_)
MarkersInAll(msgs) ==
    IF msgs = <<>> THEN 0 ELSE MarkersIn(Head(msgs).content) + MarkersInAll(Tail(msgs))

\* C37: stopGeneration called with no controller held changes nothing: the
\* messages, the flag, the current session, the session list and every
\* abort signal are what they were, a trailing assistant message included.
\* So no step taken while no controller is held aborts a request or adds a
\* stop marker.
C37_StopWithoutControllerNoOp ==
    /\ [](abortControllerRef = 0
            => LET h == stopGeneration(Hook) IN
               /\ h.messages = messages
               /\ h.isGenerating = isGenerating
               /\ h.currentSession = currentSession
               /\ h.sessions = sessions
               /\ h.selectedModel = selectedModel
               /\ h.aborted = aborted
               /\ h.abortControllerRef = 0)
    /\ [][abortControllerRef = 0
            => /\ aborted' = aborted
               /\ MarkersInAll(messages') <= MarkersInAll(messages)]_vars
\* An exchange has settled with its answer the last message and no
\* controller is held: the state in which a stopGeneration must do nothing.
C37_Witness ==
    \E s \in Sends :
        /\ send[s].outcome = "complete"
        /\ abortControllerRef = 0
        /\ ~isGenerating
        /\ Last(messages) = Message("ai", <<"a">>, s)

\* A step in which sendMessage s returns at its first test.
Rejects(s) == send[s].pc = "idle" /\ send'[s].outcome = "rejected"

\* C38: a send with no model selected is rejected, and a rejected send (no
\* model, or a text that is blank once trimmed) sets nothing and asks the
\* collaborator for nothing: messages, sessions, current session, flag,
\* controller and abort signals are what they were, so a generation in
\* flight goes on.
C38_RejectedSendChangesNothing ==
    [][\A s \in Sends :
          /\ (send[s].pc = "idle" /\ send'[s].pc # "idle" /\ selectedModel = NoModel)
                => Rejects(s)
          /\ Rejects(s)
                => /\ send'[s] = Finished("rejected")
                   /\ messages' = messages
                   /\ sessions' = sessions
                   /\ currentSession' = currentSession
                   /\ selectedModel' = selectedModel
                   /\ isGenerating' = isGenerating
                   /\ abortControllerRef' = abortControllerRef
                   /\ aborted' = aborted
                   /\ store' = store
                   /\ \A t \in Sends \ {s} : send'[t] = send[t]]_vars
\* A send with a blank text was rejected while a generation was in flight,
\* which still is.
C38_Witness ==
    \E s, t \in Sends :
        /\ send[s].outcome = "rejected"
        /\ s > t
        /\ InFlight(t)
        /\ isGenerating
        /\ abortControllerRef = t

\* The list with the stop marker appended to the content of its last message.
MarkedLast(prev) == [prev EXCEPT ![Len(prev)].content = @ \o StopMarker]

\* C39 as claimed: on a cancel the trailing assistant message is removed
\* exactly when its content is the empty string; any non-empty content,
\* whitespace included, is kept and gets the stop marker.
C39_AsClaimed ==
    [][(CancelStep /\ Len(messages) > 0 /\ Last(messages).type = "ai")
          => /\ (messages' = Front(messages)) <=> (Last(messages).content = <<>>)
             /\ Last(messages).content # <<>> => messages' = MarkedLast(messages)]_vars
\* C39 amended: on a cancel the trailing assistant message is removed
\* exactly when its trimmed content is the empty string; content that is
\* only whitespace is removed too, and content with a visible character is
\* kept and gets the stop marker.
C39_RemovedWhenBlank ==
    [][(CancelStep /\ Len(messages) > 0 /\ Last(messages).type = "ai")
          => /\ (messages' = Front(messages)) <=> (trim(Last(messages).content) = <<>>)
             /\ trim(Last(messages).content) # <<>> => messages' = MarkedLast(messages)]_vars
\* A generation was cancelled after only the blank " " had been streamed,
\* and its placeholder is gone.
C39_Witness ==
    \E s \in Sends :
        /\ aborted[s]
        /\ send[s].pc = "read"
        /\ send[s].emitted = <<SP>>
        /\ \A i \in 1..Len(messages) : messages[i].timestamp # s \/ messages[i].type = "user"
        /\ \E i \in 1..Len(messages) : messages[i].timestamp = s

====
